---- MODULE Spec2Model ----
(***************************************************************************)
(* A model of StochasticGradient.solve                                     *)
(* (src/pymanopt/solvers/stochastic_gradient.py).                          *)
(*                                                                         *)
(* One solver object (self) carries the thresholds, the log verbosity and  *)
(* the attribute _optlog.  Up to two invocations of solve run on it; each  *)
(* has its own locals (x, iter, time0, cost, grad, gradnorm, desc_dir,     *)
(* stepsize, stop_reason).  The Solver base class (_start_optlog,          *)
(* _append_optlog, _stop_optlog, _check_stopping_criterion) and the        *)
(* step-size rule left open at line 77 are collaborators whose code is not *)
(* in the file; they are modelled from their documented contracts.  The    *)
(* name linesearch of line 55 is bound nowhere in the file; the call is    *)
(* modelled as the start of the log that it is written to be.              *)
(*                                                                         *)
(* Gradients, gradient norms and step sizes are fixed-point numbers in     *)
(* units of 1e-9, so 1e-6 is 1000 and 1e-8 is 10.                          *)
(***************************************************************************)
EXTENDS Integers, Sequences, FiniteSets

VARIABLES
    solver,       \* self: [maxiter, maxtime, mingradnorm, minstepsize, logverbosity]
    problem,      \* problem: [verbosity, kind]
    rule,         \* the step sizes the configured StepSizeRule can return
    x_arg,        \* the argument x of solve (NoPoint for None)
    callers,      \* the invocations of solve that take place
    now,          \* time.time()
    optlog,       \* self._optlog
    pc,           \* position of each invocation in solve
    x, iter, time0, cost, grad, gradnorm, desc_dir, stepsize, stop_reason,
    ret,          \* what solve returned: <<>> not yet, <<x>>, or <<x, log>>
    console,      \* the lines each invocation printed
    calls,        \* how often each invocation called cost, grad, norm, step, stop
    failed,       \* the evaluation that raised in an aborted invocation
    x0,           \* the starting point of each invocation
    at            \* per invocation: the calls of man.rand made, and the points
                  \* handed to the last call of cost and of grad

vars == <<solver, problem, rule, x_arg, callers, now, optlog, pc, x, iter, time0,
          cost, grad, gradnorm, desc_dir, stepsize, stop_reason, ret, console,
          calls, failed, x0, at>>

config == <<solver, problem, rule, x_arg, callers>>

locals == <<x, iter, time0, cost, grad, gradnorm, desc_dir, stepsize, stop_reason>>

----------------------------------------------------------------------------
(* Bounds of the model *)

\* largest configured max-iteration value
MaxN == 2
\* last tick of the clock
MaxClock == 1
\* iterations after which an invocation that has not stopped is cut off
IterCap == MaxN + 1

Calls == {1, 2}

\* the points of the manifold (a cycle)
Points == 0 .. 2

\* x=None
NoPoint == -1

\* nonzero gradient estimates (units of 1e-9): norm 2000 is above 1e-6, 1000 is at it
Grads == {-2000, 1000}

\* nonzero step sizes (units of 1e-9): 20 is above 1e-8, 10 is at it
StepSizes == {10, 20}

\* a threshold is a set: empty when left unconfigured, else its one value
MaxIters == {{}} \cup {{n} : n \in -1 .. MaxN}
MaxTimes == {{}} \cup {{t} : t \in 0 .. MaxClock}
MinGradNorms == {{}, {1000}}
MinStepSizes == {{}, {10}}

Rules == {{0}, StepSizes}

Solvers == [maxiter : MaxIters, maxtime : MaxTimes, mingradnorm : MinGradNorms,
            minstepsize : MinStepSizes, logverbosity : 0 .. 2]

Problems == [verbosity : 0 .. 2, kind : {"flat", "noisy"}]

----------------------------------------------------------------------------
(* The collaborators *)

\* problem.cost: the flat problem costs 5.0 everywhere
Objective(p) == IF problem.kind = "flat" THEN 5 ELSE (p * p) + 1

\* problem.grad: the values a (mini-batch) gradient estimate at p can take
Gradient(p) == IF problem.kind = "flat" THEN {0} ELSE Grads

\* man.norm(x, grad)
Norm(p, g) == IF g < 0 THEN -g ELSE g

\* man.rand()
Rand == Points

\* the manifold's movement operator: no movement for step size 0
Move(p, v, s) ==
    IF s = 0 \/ v = 0 THEN p
    ELSE IF v > 0 THEN (p + 1) % Cardinality(Points) ELSE (p + Cardinality(Points) - 1) % Cardinality(Points)

\* StoppingPolicy.evaluate
Evaluate(s, elapsed, step, gnorm, iteration) ==
    IF \E n \in s.maxiter : iteration >= n THEN "MaxIterationsReached"
    ELSE IF \E t \in s.maxtime : elapsed >= t THEN "MaxTimeExceeded"
    ELSE IF \E g \in s.mingradnorm : gnorm <= g THEN "GradientNormBelowThreshold"
    ELSE IF \E m \in s.minstepsize : step <= m THEN "StepSizeBelowThreshold"
    ELSE "None"

\* self._start_optlog: a fresh log
StartOptlog == [records |-> <<>>, final |-> <<>>]

\* self._append_optlog: one more IterationRecord at the end
AppendOptlog(log, rec) == [log EXCEPT !.records = Append(@, rec)]

\* self._stop_optlog: the terminal record
StopOptlog(log, rec) == [log EXCEPT !.final = Append(@, rec)]

----------------------------------------------------------------------------
(* solve *)

NoCalls == [cost |-> 0, grad |-> 0, norm |-> 0, step |-> 0, stop |-> 0]

\* the state of the solver object and of the invocations before solve starts
InitState ==
    /\ now = 0
    /\ optlog = StartOptlog
    /\ pc = [i \in Calls |-> IF i \in callers THEN "init" ELSE "idle"]
    /\ x = [i \in Calls |-> x_arg]
    /\ iter = [i \in Calls |-> 0]
    /\ time0 = [i \in Calls |-> 0]
    /\ cost = [i \in Calls |-> 0]
    /\ grad = [i \in Calls |-> 0]
    /\ gradnorm = [i \in Calls |-> 0]
    /\ desc_dir = [i \in Calls |-> 0]
    /\ stepsize = [i \in Calls |-> 0]
    /\ stop_reason = [i \in Calls |-> "None"]
    /\ ret = [i \in Calls |-> <<>>]
    /\ console = [i \in Calls |-> <<>>]
    /\ calls = [i \in Calls |-> NoCalls]
    /\ failed = [i \in Calls |-> "none"]
    /\ x0 = [i \in Calls |-> x_arg]
    /\ at = [i \in Calls |-> [rand |-> 0, cost |-> NoPoint, grad |-> NoPoint]]

\* one invocation of solve on a solver of any configuration
Init ==
    /\ solver \in Solvers
    /\ problem \in Problems
    /\ rule \in Rules
    /\ x_arg \in {NoPoint, 0}
    /\ callers = {1}
    /\ InitState

\* two overlapping invocations of solve on the same solver object
SharedInit ==
    /\ solver \in [maxiter : {{1}, {2}}, maxtime : {{}}, mingradnorm : {{}},
                   minstepsize : {{}}, logverbosity : {0, 2}]
    /\ problem \in [verbosity : {0}, kind : {"flat"}]
    /\ rule \in Rules
    /\ x_arg = 0
    /\ callers = Calls
    /\ InitState

\* print(...) under a verbosity gate
Emit(out, gate, lines) == IF gate THEN out \o lines ELSE out

\* a counter that is advanced twice
NextIterSkips(n) == n + 2

\* the iteration counter after line 65
NextIter(n) == n + 1

\* a start that asks the manifold for a random point whatever x is
StartAlwaysRandom(i) ==
    /\ pc[i] = "init"
    /\ \E p \in Rand :
          /\ x' = [x EXCEPT ![i] = p]
          /\ x0' = [x0 EXCEPT ![i] = p]
    /\ iter' = [iter EXCEPT ![i] = 0]
    /\ time0' = [time0 EXCEPT ![i] = now]
    /\ console' = [console EXCEPT ![i] = Emit(@, problem.verbosity >= 2, <<"header">>)]
    /\ at' = [at EXCEPT ![i].rand = @ + 1]
    /\ optlog' = StartOptlog
    /\ pc' = [pc EXCEPT ![i] = "cost"]
    /\ UNCHANGED <<config, now, cost, grad, gradnorm, desc_dir, stepsize,
                   stop_reason, ret, calls, failed>>

\* a loop that asks the stopping criterion before its first iteration
StartChecksFirst(i) ==
    /\ pc[i] = "init"
    /\ \E p \in (IF x_arg = NoPoint THEN Rand ELSE {x_arg}) :
          /\ x' = [x EXCEPT ![i] = p]
          /\ x0' = [x0 EXCEPT ![i] = p]
    /\ iter' = [iter EXCEPT ![i] = 0]
    /\ time0' = [time0 EXCEPT ![i] = now]
    /\ console' = [console EXCEPT ![i] = Emit(@, problem.verbosity >= 2, <<"header">>)]
    /\ at' = [at EXCEPT ![i].rand = IF x_arg = NoPoint THEN @ + 1 ELSE @]
    /\ optlog' = StartOptlog
    /\ pc' = [pc EXCEPT ![i] = "check"]
    /\ UNCHANGED <<config, now, cost, grad, gradnorm, desc_dir, stepsize,
                   stop_reason, ret, calls, failed>>

\* lines 43-55
Start(i) ==
    /\ pc[i] = "init"
    /\ \E p \in (IF x_arg = NoPoint THEN Rand ELSE {x_arg}) :
          /\ x' = [x EXCEPT ![i] = p]
          /\ x0' = [x0 EXCEPT ![i] = p]
    /\ iter' = [iter EXCEPT ![i] = 0]
    /\ time0' = [time0 EXCEPT ![i] = now]
    /\ console' = [console EXCEPT ![i] = Emit(@, problem.verbosity >= 2, <<"header">>)]
    /\ at' = [at EXCEPT ![i].rand = IF x_arg = NoPoint THEN @ + 1 ELSE @]
    /\ optlog' = StartOptlog
    /\ pc' = [pc EXCEPT ![i] = "cost"]
    /\ UNCHANGED <<config, now, cost, grad, gradnorm, desc_dir, stepsize,
                   stop_reason, ret, calls, failed>>

\* line 62
EvalCost(i) ==
    /\ pc[i] = "cost"
    /\ iter[i] < IterCap
    /\ cost' = [cost EXCEPT ![i] = Objective(x[i])]
    /\ at' = [at EXCEPT ![i].cost = x[i]]
    /\ calls' = [calls EXCEPT ![i].cost = @ + 1]
    /\ pc' = [pc EXCEPT ![i] = "grad"]
    /\ UNCHANGED <<config, now, optlog, x, iter, time0, grad, gradnorm, desc_dir,
                   stepsize, stop_reason, ret, console, failed, x0>>

\* line 63
EvalGrad(i) ==
    /\ pc[i] = "grad"
    /\ \E g \in Gradient(x[i]) : grad' = [grad EXCEPT ![i] = g]
    /\ at' = [at EXCEPT ![i].grad = x[i]]
    /\ calls' = [calls EXCEPT ![i].grad = @ + 1]
    /\ pc' = [pc EXCEPT ![i] = "norm"]
    /\ UNCHANGED <<config, now, optlog, x, iter, time0, cost, gradnorm, desc_dir,
                   stepsize, stop_reason, ret, console, failed, x0>>

\* lines 64-65
EvalNorm(i) ==
    /\ pc[i] = "norm"
    /\ gradnorm' = [gradnorm EXCEPT ![i] = Norm(x[i], grad[i])]
    /\ iter' = [iter EXCEPT ![i] = NextIter(@)]
    /\ calls' = [calls EXCEPT ![i].norm = @ + 1]
    /\ pc' = [pc EXCEPT ![i] = "record"]
    /\ UNCHANGED <<config, now, optlog, x, time0, cost, grad, desc_dir,
                   stepsize, stop_reason, ret, console, failed, x0, at>>

\* a record that carries the counter as it was before line 65
IterationRecordStale(i) ==
    [iteration |-> iter[i] - 1, x |-> x[i], fx |-> cost[i], gradnorm |-> gradnorm[i],
     by |-> i]

\* the IterationRecord of line 71 (by: the invocation that appends it)
IterationRecord(i) ==
    [iteration |-> iter[i], x |-> x[i], fx |-> cost[i], gradnorm |-> gradnorm[i],
     by |-> i]

\* lines 67-71
Record(i) ==
    /\ pc[i] = "record"
    /\ console' = [console EXCEPT ![i] =
            Emit(@, problem.verbosity >= 2, << <<iter[i], cost[i], gradnorm[i]>> >>)]
    /\ optlog' = IF solver.logverbosity >= 2
                 THEN AppendOptlog(optlog, IterationRecord(i))
                 ELSE optlog
    /\ pc' = [pc EXCEPT ![i] = "step"]
    /\ UNCHANGED <<config, now, locals, ret, calls, failed, x0, at>>

\* a direction that keeps the sign of the gradient
DescentDirectionUphill(g) == g

\* line 74
DescentDirection(g) == -g

\* a step that is given up, and the loop left, when the time budget is spent
StepUnlessTimedOut(i) ==
    /\ pc[i] = "step"
    /\ IF \E t \in solver.maxtime : now - time0[i] >= t
       THEN /\ stop_reason' = [stop_reason EXCEPT ![i] = "MaxTimeExceeded"]
            /\ pc' = [pc EXCEPT ![i] = "finish"]
            /\ UNCHANGED <<desc_dir, stepsize, x, calls>>
       ELSE /\ desc_dir' = [desc_dir EXCEPT ![i] = DescentDirection(grad[i])]
            /\ \E s \in rule :
                  /\ stepsize' = [stepsize EXCEPT ![i] = s]
                  /\ x' = [x EXCEPT ![i] = Move(@, DescentDirection(grad[i]), s)]
            /\ calls' = [calls EXCEPT ![i].step = @ + 1]
            /\ pc' = [pc EXCEPT ![i] = "check"]
            /\ UNCHANGED stop_reason
    /\ UNCHANGED <<config, now, optlog, iter, time0, cost, grad, gradnorm,
                   ret, console, failed, x0, at>>

\* lines 74-77
Step(i) ==
    /\ pc[i] = "step"
    /\ desc_dir' = [desc_dir EXCEPT ![i] = DescentDirection(grad[i])]
    /\ \E s \in rule :
          /\ stepsize' = [stepsize EXCEPT ![i] = s]
          /\ x' = [x EXCEPT ![i] = Move(@, DescentDirection(grad[i]), s)]
    /\ calls' = [calls EXCEPT ![i].step = @ + 1]
    /\ pc' = [pc EXCEPT ![i] = "check"]
    /\ UNCHANGED <<config, now, optlog, iter, time0, cost, grad, gradnorm,
                   stop_reason, ret, console, failed, x0, at>>

\* the step size is not handed over: the policy sees its default, infinity
CheckWithoutStepsize(i) ==
    Evaluate(solver, now - time0[i], 1000000, gradnorm[i], iter[i])

\* the gradient norm is not handed over: the policy sees its default, infinity
CheckWithoutGradnorm(i) ==
    Evaluate(solver, now - time0[i], stepsize[i], 1000000, iter[i])

\* the step size and the gradient norm handed over in each other's place
CheckSwapped(i) ==
    Evaluate(solver, now - time0[i], gradnorm[i], stepsize[i], iter[i])

\* lines 79-80
CheckStoppingCriterion(i) ==
    Evaluate(solver, now - time0[i], stepsize[i], gradnorm[i], iter[i])

\* a loop that goes on when the step size is what fell below its threshold
StopsUnlessStepSize(reason) == reason # "None" /\ reason # "StepSizeBelowThreshold"

\* line 82
Stops(reason) == reason # "None"

\* lines 79-86
Check(i) ==
    /\ pc[i] = "check"
    /\ stop_reason' = [stop_reason EXCEPT ![i] = CheckStoppingCriterion(i)]
    /\ calls' = [calls EXCEPT ![i].stop = @ + 1]
    /\ IF Stops(stop_reason'[i])
       THEN /\ console' = [console EXCEPT ![i] =
                    Emit(@, problem.verbosity >= 1, <<stop_reason'[i], "">>)]
            /\ pc' = [pc EXCEPT ![i] = "finish"]
       ELSE /\ console' = console
            /\ pc' = [pc EXCEPT ![i] = "cost"]
    /\ UNCHANGED <<config, now, optlog, x, iter, time0, cost, grad, gradnorm,
                   desc_dir, stepsize, ret, failed, x0, at>>

\* a terminal record that reuses the cost of the last iteration
TerminalRecordStaleCost(i) ==
    [x |-> x[i], fx |-> cost[i], stop_reason |-> stop_reason[i],
     time |-> now - time0[i], stepsize |-> stepsize[i], gradnorm |-> gradnorm[i],
     iter |-> iter[i], by |-> i]

\* the terminal record of lines 91-93
TerminalRecord(i) ==
    [x |-> x[i], fx |-> Objective(x[i]), stop_reason |-> stop_reason[i],
     time |-> now - time0[i], stepsize |-> stepsize[i], gradnorm |-> gradnorm[i],
     iter |-> iter[i], by |-> i]

\* a gate that lets log verbosity 0 through to the log branch
ReturnsBarePointStrict == solver.logverbosity < 0

\* line 88
ReturnsBarePoint == solver.logverbosity <= 0

\* a terminal record written without a cost evaluation of its own
FinishWithoutEvaluation(i) ==
    /\ pc[i] = "finish"
    /\ IF ReturnsBarePoint
       THEN /\ ret' = [ret EXCEPT ![i] = <<x[i]>>]
            /\ UNCHANGED optlog
       ELSE /\ optlog' = StopOptlog(optlog, [TerminalRecord(i) EXCEPT !.fx = cost[i]])
            /\ ret' = [ret EXCEPT ![i] = <<x[i], optlog'>>]
    /\ pc' = [pc EXCEPT ![i] = "returned"]
    /\ UNCHANGED <<config, now, locals, console, failed, x0, calls, at>>

\* a return of the point the last gradient was evaluated at
FinishAtGradientPoint(i) ==
    /\ pc[i] = "finish"
    /\ IF ReturnsBarePoint
       THEN /\ ret' = [ret EXCEPT ![i] = <<at[i].grad>>]
            /\ UNCHANGED <<optlog, calls, at>>
       ELSE /\ optlog' = StopOptlog(optlog, TerminalRecord(i))
            /\ calls' = [calls EXCEPT ![i].cost = @ + 1]
            /\ at' = [at EXCEPT ![i].cost = x[i]]
            /\ ret' = [ret EXCEPT ![i] = <<at[i].grad, optlog'>>]
    /\ pc' = [pc EXCEPT ![i] = "returned"]
    /\ UNCHANGED <<config, now, locals, console, failed, x0>>

\* lines 88-94
Finish(i) ==
    /\ pc[i] = "finish"
    /\ IF ReturnsBarePoint
       THEN /\ ret' = [ret EXCEPT ![i] = <<x[i]>>]
            /\ UNCHANGED <<optlog, calls, at>>
       ELSE /\ optlog' = StopOptlog(optlog, TerminalRecord(i))
            /\ calls' = [calls EXCEPT ![i].cost = @ + 1]
            /\ at' = [at EXCEPT ![i].cost = x[i]]
            /\ ret' = [ret EXCEPT ![i] = <<x[i], optlog'>>]
    /\ pc' = [pc EXCEPT ![i] = "returned"]
    /\ UNCHANGED <<config, now, locals, console, failed, x0>>

\* the evaluation an invocation is about to make, when it is one that can raise
Pending(i) ==
    IF pc[i] \in {"cost", "grad", "norm", "step"} THEN pc[i]
    ELSE IF pc[i] = "finish" /\ ~ReturnsBarePoint THEN "cost"
    ELSE "none"

\* the points handed to cost and grad, after the pending call was made at x
AfterCall(i) ==
    IF Pending(i) = "cost" THEN [at EXCEPT ![i].cost = x[i]]
    ELSE IF Pending(i) = "grad" THEN [at EXCEPT ![i].grad = x[i]]
    ELSE at

\* an evaluation that raises is caught and the iteration is run again
RaiseThenRetry(i) ==
    /\ Pending(i) # "none"
    /\ pc[i] = "cost" => iter[i] < IterCap
    /\ calls[i][Pending(i)] < IterCap
    /\ calls' = [calls EXCEPT ![i][Pending(i)] = @ + 1]
    /\ failed' = [failed EXCEPT ![i] = Pending(i)]
    /\ pc' = [pc EXCEPT ![i] = IF pc[i] = "finish" THEN "finish" ELSE "cost"]
    /\ at' = AfterCall(i)
    /\ UNCHANGED <<config, now, optlog, locals, ret, console, x0>>

\* lines 62, 63, 64, 77, 91: the evaluation raises and solve propagates it
Raise(i) ==
    /\ Pending(i) # "none"
    /\ pc[i] = "cost" => iter[i] < IterCap
    /\ calls' = [calls EXCEPT ![i][Pending(i)] = @ + 1]
    /\ failed' = [failed EXCEPT ![i] = Pending(i)]
    /\ pc' = [pc EXCEPT ![i] = "aborted"]
    /\ at' = AfterCall(i)
    /\ UNCHANGED <<config, now, optlog, locals, ret, console, x0>>

\* time passes
Tick ==
    /\ now < MaxClock
    /\ now' = now + 1
    /\ UNCHANGED <<config, optlog, pc, locals, ret, console, calls, failed, x0, at>>

Run(i) ==
    \/ Start(i)
    \/ EvalCost(i)
    \/ EvalGrad(i)
    \/ EvalNorm(i)
    \/ Record(i)
    \/ Step(i)
    \/ Check(i)
    \/ Finish(i)
    \/ Raise(i)

Next == Tick \/ \E i \in Calls : Run(i)

Spec == Init /\ [][Next]_vars

\* solve is sequential code: an invocation that can take a step takes one
\* (the console is left out: nothing is printed at verbosity 0)
FairInit == Init /\ problem.verbosity = 0

FairSpec == FairInit /\ [][Next]_vars /\ \A i \in Calls : WF_vars(Run(i))

SharedSpec == SharedInit /\ [][Next]_vars

----------------------------------------------------------------------------
(* The thresholds an invocation has crossed, as the stopping policy sees them *)

IterHit(i) == \E n \in solver.maxiter : iter[i] >= n
TimeHit(i) == \E t \in solver.maxtime : now - time0[i] >= t
GradHit(i) == \E g \in solver.mingradnorm : gradnorm[i] <= g
StepHit(i) == \E m \in solver.minstepsize : stepsize[i] <= m

OnlyIterationThreshold ==
    /\ solver.maxiter # {}
    /\ solver.maxtime = {}
    /\ solver.mingradnorm = {}
    /\ solver.minstepsize = {}

\* the loop has been left with a stop reason
Stopped(i) == pc[i] \in {"finish", "returned"}

\* the step in which invocation i runs its stop check
CheckStep(i) == pc[i] = "check" /\ pc'[i] # "check"

----------------------------------------------------------------------------
(* C1 *)

\* C1 as stated: with only the iteration threshold enabled, for every
\* configured N, a solve that has left the loop stopped with
\* MaxIterationsReached and an iteration count of exactly N.
C1_EveryN ==
    \A i \in callers :
        (OnlyIterationThreshold /\ Stopped(i)) =>
            /\ stop_reason[i] = "MaxIterationsReached"
            /\ iter[i] \in solver.maxiter

\* C1 amended: with only the iteration threshold enabled and N >= 1, a solve
\* in which no evaluation raises terminates: it returns with stop reason
\* MaxIterationsReached and a final iteration count of exactly N.
C1_TerminatesAtN ==
    \A i \in Calls :
        (i \in callers /\ OnlyIterationThreshold /\ \E n \in solver.maxiter : n >= 1)
            ~> \/ pc[i] = "aborted"
               \/ /\ pc[i] = "returned"
                  /\ stop_reason[i] = "MaxIterationsReached"
                  /\ iter[i] \in solver.maxiter

C1_Witness ==
    /\ OnlyIterationThreshold
    /\ solver.maxiter = {2}
    /\ pc[1] = "returned"
    /\ stop_reason[1] = "MaxIterationsReached"
    /\ iter[1] = 2

----------------------------------------------------------------------------
(* C2 *)

\* the reason the fixed order gives for the thresholds crossed
FirstMatch(i, reason) ==
    /\ reason = "MaxIterationsReached" <=> IterHit(i)
    /\ reason = "MaxTimeExceeded" <=> (~IterHit(i) /\ TimeHit(i))
    /\ reason = "GradientNormBelowThreshold" <=>
            (~IterHit(i) /\ ~TimeHit(i) /\ GradHit(i))
    /\ reason = "StepSizeBelowThreshold" <=>
            (~IterHit(i) /\ ~TimeHit(i) /\ ~GradHit(i) /\ StepHit(i))
    /\ reason = "None" <=>
            (~IterHit(i) /\ ~TimeHit(i) /\ ~GradHit(i) /\ ~StepHit(i))

\* C2: every stop check of solve reports the first threshold crossed in the
\* order iteration, time, gradient norm, step size, for the iteration count,
\* elapsed time, gradient norm and step size of that iteration, and None when
\* none is crossed; when gradient norm and step size are both crossed and
\* neither iteration nor time is, the solve stops with
\* GradientNormBelowThreshold; a solve is left with one reason, the one of
\* its last check.
C2_FirstMatchWins ==
    [][\A i \in callers :
          /\ CheckStep(i) =>
                /\ FirstMatch(i, stop_reason'[i])
                /\ (GradHit(i) /\ StepHit(i) /\ ~IterHit(i) /\ ~TimeHit(i)) =>
                        /\ stop_reason'[i] = "GradientNormBelowThreshold"
                        /\ pc'[i] = "finish"
          /\ ~CheckStep(i) => stop_reason'[i] = stop_reason[i]
      ]_vars

C2_Witness ==
    /\ pc[1] = "finish"
    /\ solver.maxiter = {}
    /\ solver.maxtime = {}
    /\ GradHit(1)
    /\ StepHit(1)
    /\ gradnorm[1] = 1000
    /\ stop_reason[1] = "GradientNormBelowThreshold"

----------------------------------------------------------------------------
(* C3 *)

IsPrefix(s, t) == Len(s) <= Len(t) /\ SubSeq(t, 1, Len(s)) = s

\* C3: with log verbosity >= 2 the k-th record of the log (counting from 1)
\* has iteration k, every step of the loop leaves the records already in the
\* log in place and unchanged, and a step appends at most one record.
C3_MonotonicLog ==
    /\ [](solver.logverbosity >= 2 =>
            /\ \A k \in 1 .. Len(optlog.records) : optlog.records[k].iteration = k
            /\ \A i \in callers :
                  pc[i] \in {"step", "check", "finish", "returned"} =>
                      Len(optlog.records) = iter[i])
    /\ [][/\ IsPrefix(optlog.records, optlog'.records)
          /\ Len(optlog'.records) <= Len(optlog.records) + 1]_vars

C3_Witness ==
    /\ solver.logverbosity = 2
    /\ Len(optlog.records) = 3
    /\ optlog.records[3].iteration = 3

----------------------------------------------------------------------------
(* C4 *)

\* C4: with log verbosity 0 solve returns the bare final point; with log
\* verbosity >= 2 it returns the pair of the final point and the log, and the
\* log holds as many IterationRecords as loop iterations were executed, which
\* is the final iteration count.
C4_LogLevelGating ==
    \A i \in callers :
        pc[i] = "returned" =>
            /\ solver.logverbosity = 0 => ret[i] = <<x[i]>>
            /\ solver.logverbosity >= 2 =>
                  /\ Len(ret[i]) = 2
                  /\ ret[i][1] = x[i]
                  /\ Len(ret[i][2].records) = calls[i].stop
                  /\ calls[i].stop = iter[i]

C4_Witness ==
    /\ pc[1] = "returned"
    /\ solver.logverbosity = 2
    /\ Len(ret[1]) = 2
    /\ Len(ret[1][2].records) = 2

----------------------------------------------------------------------------
(* C5 *)

\* C5: when the gradient function raises on its k-th call, solve is aborted
\* and has returned nothing, the failing iteration has no record (with log
\* verbosity >= 2 the log holds exactly k-1 records, and never more than k-1),
\* the k-th cost evaluation was the last one, k-1 step-size evaluations were
\* made, and nothing is evaluated or logged afterwards: the iteration is not
\* run again.
C5_GradientRaises ==
    /\ [](\A i \in callers :
            failed[i] = "grad" =>
                /\ pc[i] = "aborted"
                /\ ret[i] = <<>>
                /\ Len(optlog.records) <= calls[i].grad - 1
                /\ solver.logverbosity >= 2 => Len(optlog.records) = calls[i].grad - 1
                /\ optlog.final = <<>>
                /\ calls[i].cost = calls[i].grad
                /\ calls[i].step = calls[i].grad - 1
                /\ iter[i] = calls[i].grad - 1)
    /\ [][\A i \in callers :
            failed[i] = "grad" =>
                /\ calls'[i] = calls[i]
                /\ optlog' = optlog
                /\ pc'[i] = "aborted"]_vars

C5_Witness ==
    /\ failed[1] = "grad"
    /\ calls[1].grad = 3
    /\ solver.logverbosity = 2
    /\ Len(optlog.records) = 2

----------------------------------------------------------------------------
(* C6 *)

NoThresholdReachable ==
    /\ solver.maxiter = {}
    /\ solver.maxtime = {}
    /\ solver.mingradnorm = {}
    /\ solver.minstepsize = {}

\* C6: a solve whose configuration leaves no stopping threshold reachable is
\* rejected at solve start, before the first iteration runs: it makes no cost,
\* gradient, norm or step-size evaluation.
C6_RejectedAtStart ==
    NoThresholdReachable => \A i \in callers : calls[i] = NoCalls

----------------------------------------------------------------------------
(* C7 *)

\* the state of the solve state machine; an invocation that raised stays in
\* the state it raised in
Phase(i) ==
    IF pc[i] \in {"idle", "init"} THEN "Initializing"
    ELSE IF pc[i] \in {"finish", "returned"} THEN "Terminated"
    ELSE IF pc[i] = "aborted" /\ stop_reason[i] # "None" THEN "Terminated"
    ELSE "Iterating"

\* what holds of the state machine in every state
C7_States(i) ==
    /\ Phase(i) = "Terminated" <=> stop_reason[i] # "None"
    /\ Len(optlog.final) <= 1
    /\ pc[i] = "returned" <=> ret[i] # <<>>
    /\ pc[i] = "returned" =>
            Len(optlog.final) = (IF solver.logverbosity >= 1 THEN 1 ELSE 0)
    /\ solver.logverbosity = 0 => optlog.final = <<>>

\* what holds of every step of the state machine
C7_Steps(i) ==
    /\ <<Phase(i), Phase(i)'>> \in
            {<<"Initializing", "Initializing">>, <<"Initializing", "Iterating">>,
             <<"Iterating", "Iterating">>, <<"Iterating", "Terminated">>,
             <<"Terminated", "Terminated">>}
    /\ (Phase(i) = "Initializing" /\ Phase(i)' = "Iterating") =>
            x'[i] \in Points
    /\ (Phase(i) = "Iterating" /\ Phase(i)' = "Terminated") => CheckStep(i)
    /\ CheckStep(i) =>
            IF stop_reason'[i] = "None"
            THEN Phase(i)' = "Iterating" /\ pc'[i] = "cost"
            ELSE Phase(i)' = "Terminated"
    /\ Phase(i) = "Terminated" =>
            /\ calls'[i].grad = calls[i].grad
            /\ calls'[i].norm = calls[i].norm
            /\ calls'[i].step = calls[i].step
            /\ calls'[i].stop = calls[i].stop
            /\ optlog'.records = optlog.records
            /\ x'[i] = x[i]
    /\ pc[i] = "returned" => pc'[i] = "returned" /\ ret'[i] = ret[i]
    /\ optlog'.final # optlog.final =>
            pc[i] = "finish" /\ pc'[i] = "returned" /\ solver.logverbosity >= 1

\* C7 as stated: the three states and their transitions, Terminated
\* absorbing, one return, at most one finalization, and after termination no
\* further cost, gradient or step-size evaluation and no log append.
C7_NothingAfterTermination ==
    /\ [](\A i \in callers : C7_States(i))
    /\ [][\A i \in callers :
            /\ C7_Steps(i)
            /\ Phase(i) = "Terminated" => calls'[i].cost = calls[i].cost]_vars

\* C7 amended: as stated, except that after termination one more cost
\* evaluation is made when log verbosity >= 1: the cost at the final point,
\* evaluated for the terminal record just before solve returns.
C7_StateMachine ==
    /\ [](\A i \in callers : C7_States(i))
    /\ [][\A i \in callers :
            /\ C7_Steps(i)
            /\ Phase(i) = "Terminated" =>
                  \/ calls'[i].cost = calls[i].cost
                  \/ /\ calls'[i].cost = calls[i].cost + 1
                     /\ pc[i] = "finish"
                     /\ solver.logverbosity >= 1]_vars

C7_Witness ==
    /\ pc[1] = "returned"
    /\ solver.logverbosity = 1
    /\ Len(optlog.final) = 1
    /\ iter[1] = 2
    /\ calls[1].cost = 3

----------------------------------------------------------------------------
(* C8 *)

\* C8: the log an invocation returns holds only the IterationRecords and the
\* terminal record that this invocation produced, with iterations 1..n, also
\* when another invocation overlaps it on the same solver object.
C8_OwnLogOnly ==
    \A i \in callers :
        (pc[i] = "returned" /\ Len(ret[i]) = 2) =>
            /\ \A k \in 1 .. Len(ret[i][2].records) :
                  /\ ret[i][2].records[k].by = i
                  /\ ret[i][2].records[k].iteration = k
            /\ Len(ret[i][2].records) =
                  (IF solver.logverbosity >= 2 THEN iter[i] ELSE 0)
            /\ \A k \in 1 .. Len(ret[i][2].final) : ret[i][2].final[k].by = i
            /\ Len(ret[i][2].final) = 1

----------------------------------------------------------------------------
(* C9 *)

\* C9: with a StepSizeRule fixed at step size 0 and a min-stepsize threshold
\* of 1e-8, a stop check at which no other threshold is crossed is the check
\* of iteration 1 and stops the solve with StepSizeBelowThreshold, the point
\* being the starting point; the solve then returns that point with an
\* iteration count of 1.
C9_ZeroStepStops ==
    /\ [][\A i \in callers :
            (/\ CheckStep(i)
             /\ rule = {0}
             /\ solver.minstepsize = {10}
             /\ ~IterHit(i) /\ ~TimeHit(i) /\ ~GradHit(i)) =>
                /\ stop_reason'[i] = "StepSizeBelowThreshold"
                /\ pc'[i] = "finish"
                /\ iter[i] = 1
                /\ calls[i].step = 1
                /\ stepsize[i] = 0
                /\ x[i] = x0[i]]_vars
    /\ [](\A i \in callers :
            (/\ pc[i] = "returned"
             /\ rule = {0}
             /\ solver.minstepsize = {10}
             /\ stop_reason[i] = "StepSizeBelowThreshold") =>
                /\ iter[i] = 1
                /\ calls[i].stop = 1
                /\ ret[i][1] = x0[i])

C9_Witness ==
    /\ pc[1] = "returned"
    /\ rule = {0}
    /\ solver.minstepsize = {10}
    /\ problem.kind = "noisy"
    /\ grad[1] = -2000
    /\ stop_reason[1] = "StepSizeBelowThreshold"
    /\ iter[1] = 1
    /\ ret[1][1] = x0[1]

----------------------------------------------------------------------------
(* C10 *)

\* C10: with a cost that is 5.0 everywhere, a gradient that is always zero
\* and a min-gradnorm threshold of 1e-6, a stop check at which neither the
\* iteration nor the time threshold is crossed is the check of iteration 1,
\* sees cost 5.0 and gradnorm 0 and stops the solve with
\* GradientNormBelowThreshold; the solve then returns with an iteration
\* count of 1.
C10_ZeroGradientStops ==
    /\ [][\A i \in callers :
            (/\ CheckStep(i)
             /\ problem.kind = "flat"
             /\ solver.mingradnorm = {1000}
             /\ ~IterHit(i) /\ ~TimeHit(i)) =>
                /\ cost[i] = 5
                /\ grad[i] = 0
                /\ gradnorm[i] = 0
                /\ stop_reason'[i] = "GradientNormBelowThreshold"
                /\ pc'[i] = "finish"
                /\ iter[i] = 1]_vars
    /\ [](\A i \in callers :
            (/\ pc[i] = "returned"
             /\ problem.kind = "flat"
             /\ solver.mingradnorm = {1000}
             /\ stop_reason[i] = "GradientNormBelowThreshold") =>
                /\ iter[i] = 1
                /\ calls[i].stop = 1
                /\ calls[i].grad = 1)

C10_Witness ==
    /\ pc[1] = "returned"
    /\ problem.kind = "flat"
    /\ solver.mingradnorm = {1000}
    /\ solver.maxiter = {2}
    /\ rule = StepSizes
    /\ stop_reason[1] = "GradientNormBelowThreshold"
    /\ iter[1] = 1
    /\ gradnorm[1] = 0

----------------------------------------------------------------------------
(* C11 *)

\* C11: when an evaluation raises, solve has returned nothing and nothing of
\* the aborted solve is left to observe: the log attribute of the solver
\* object holds none of its IterationRecords and no terminal record.
C11_NothingCommitted ==
    \A i \in callers :
        pc[i] = "aborted" =>
            /\ ret[i] = <<>>
            /\ optlog.records = <<>>
            /\ optlog.final = <<>>

----------------------------------------------------------------------------
(* C12 *)

\* C12: without an initial point solve asks the manifold for a random point
\* exactly once, before any evaluation, and the first cost and gradient
\* evaluations are at that point; with an initial point the manifold is never
\* asked and the first cost and gradient evaluations are at the point
\* supplied.
C12_StartingPoint ==
    /\ [](\A i \in callers :
            /\ at[i].rand = (IF x_arg = NoPoint /\ pc[i] # "init" THEN 1 ELSE 0)
            /\ pc[i] = "init" => calls[i] = NoCalls
            /\ pc[i] # "init" => x0[i] \in Points
            /\ (x_arg # NoPoint /\ pc[i] # "init") => x0[i] = x_arg
            /\ calls[i].cost = 1 => at[i].cost = x0[i]
            /\ calls[i].grad = 1 => at[i].grad = x0[i])
    /\ [][\A i \in callers :
            /\ pc[i] # "init" => at'[i].rand = at[i].rand
            /\ pc[i] # "init" => x0'[i] = x0[i]
            /\ (pc[i] = "init" /\ pc'[i] # "init") => x'[i] = x0'[i]]_vars

C12_Witness ==
    /\ x_arg = NoPoint
    /\ at[1].rand = 1
    /\ x0[1] = 2
    /\ calls[1].cost = 1
    /\ calls[1].grad = 1
    /\ at[1].grad = 2
    /\ pc[1] = "check"
    /\ x[1] # x0[1]

----------------------------------------------------------------------------
(* C13 *)

\* the position that follows p inside an iteration
FollowsInIteration(p) ==
    IF p = "cost" THEN "grad"
    ELSE IF p = "grad" THEN "norm"
    ELSE IF p = "norm" THEN "record"
    ELSE IF p = "record" THEN "step"
    ELSE "check"

\* C13: the stop check of an iteration is made once, after the cost
\* evaluation, the gradient evaluation and the step-size resolution of that
\* iteration have completed; an iteration that has started goes from each of
\* its evaluations to the next whatever the elapsed time is (unless an
\* evaluation raises), and a spent time budget ends the solve only at the
\* stop check, where it keeps the next iteration from starting.
C13_CheckAfterIteration ==
    /\ [](\A i \in callers :
            /\ calls[i].stop <= calls[i].step
            /\ calls[i].stop <= iter[i]
            /\ iter[i] <= calls[i].stop + 1
            /\ Stopped(i) => calls[i].stop = iter[i])
    /\ [][\A i \in callers :
            /\ calls'[i].stop # calls[i].stop =>
                  /\ CheckStep(i)
                  /\ calls'[i].stop = calls[i].stop + 1
                  /\ calls[i].cost = iter[i]
                  /\ calls[i].grad = iter[i]
                  /\ calls[i].step = iter[i]
                  /\ calls[i].stop = iter[i] - 1
                  /\ failed[i] = "none"
            /\ (pc[i] \in {"cost", "grad", "norm", "record", "step"} /\ pc'[i] # pc[i]) =>
                  /\ pc'[i] \in {FollowsInIteration(pc[i]), "aborted"}
                  /\ stop_reason'[i] = stop_reason[i]
            /\ (pc[i] = "cost" /\ pc'[i] = "grad") => calls[i].stop = iter[i]
            /\ (CheckStep(i) /\ TimeHit(i)) => pc'[i] = "finish"
            /\ stop_reason'[i] = "MaxTimeExceeded" =>
                  \/ stop_reason[i] = "MaxTimeExceeded"
                  \/ CheckStep(i) /\ TimeHit(i)]_vars

\* the time budget was not spent at the check of iteration 1 and is spent
\* before the step of iteration 2 is checked
C13_Witness ==
    /\ solver.maxtime = {1}
    /\ solver.maxiter = {}
    /\ pc[1] = "check"
    /\ iter[1] = 2
    /\ calls[1].step = 2
    /\ calls[1].stop = 1
    /\ TimeHit(1)

----------------------------------------------------------------------------
(* C14 *)

\* C14: the current point changes only when solve takes its starting point
\* and when the step-size rule returns; the point the rule returns is the one
\* the next cost and gradient evaluations are made at when the stop check
\* answers None, and the one solve returns when the check names a reason, so
\* the returned point is the point after the last step and not the point of
\* the last gradient evaluation.
C14_PointHandOver ==
    /\ [](\A i \in callers :
            /\ pc[i] \in {"check", "finish", "returned"} =>
                  x[i] = Move(at[i].grad, desc_dir[i], stepsize[i])
            /\ pc[i] = "returned" => ret[i][1] = x[i])
    /\ [][\A i \in callers :
            /\ x'[i] # x[i] => pc[i] \in {"init", "step"}
            /\ (pc[i] = "step" /\ pc'[i] = "check") =>
                  x'[i] = Move(x[i], desc_dir'[i], stepsize'[i])
            /\ (CheckStep(i) /\ stop_reason'[i] = "None") =>
                  pc'[i] = "cost" /\ x'[i] = x[i]
            /\ (CheckStep(i) /\ stop_reason'[i] # "None") =>
                  pc'[i] = "finish" /\ x'[i] = x[i]
            /\ calls'[i].cost # calls[i].cost => at'[i].cost = x[i]
            /\ calls'[i].grad # calls[i].grad => at'[i].grad = x[i]]_vars

\* a solve of two iterations whose steps both moved the point: the second
\* gradient was taken where the first step ended, and the point returned is
\* where the second step ended
C14_Witness ==
    /\ pc[1] = "returned"
    /\ iter[1] = 2
    /\ x0[1] = 0
    /\ at[1].grad = 1
    /\ ret[1][1] = 2
    /\ solver.logverbosity = 0

----------------------------------------------------------------------------
(* C16 *)

\* C16: the direction handed to the step-size rule in an iteration is the
\* negation of the gradient evaluated in that iteration, whatever the
\* direction of the iteration before was, and the step is taken along it.
C16_NegatedGradient ==
    /\ [](\A i \in callers :
            pc[i] \in {"check", "finish", "returned"} =>
                /\ desc_dir[i] = 0 - grad[i]
                /\ calls[i].grad = calls[i].step)
    /\ [][\A i \in callers :
            /\ desc_dir'[i] # desc_dir[i] => pc[i] = "step" /\ pc'[i] = "check"
            /\ (pc[i] = "step" /\ pc'[i] = "check") =>
                  /\ desc_dir'[i] = 0 - grad[i]
                  /\ grad'[i] = grad[i]
                  /\ calls[i].grad = iter[i]
                  /\ x'[i] = Move(x[i], 0 - grad[i], stepsize'[i])]_vars

\* the second iteration of a solve on the noisy problem: its gradient is
\* -2000 and its direction 2000, after a first iteration that went the other
\* way (from point 0 down to point 2)
C16_Witness ==
    /\ pc[1] = "check"
    /\ iter[1] = 2
    /\ x0[1] = 0
    /\ at[1].grad = 2
    /\ grad[1] = -2000
    /\ desc_dir[1] = 2000

----------------------------------------------------------------------------
(* C17 *)

\* C17: the stopping criterion is first asked after one full iteration (one
\* cost evaluation, one gradient evaluation, one step), so a solve that
\* leaves the loop has an iteration count of at least 1 and has evaluated the
\* cost and the gradient at least once, whatever the configuration; with a
\* maximum of 0 or fewer iterations, or a time budget of 0, it leaves the
\* loop with an iteration count of exactly 1.
C17_AtLeastOneIteration ==
    /\ [](\A i \in callers :
            /\ calls[i].stop >= 1 =>
                  /\ iter[i] >= 1
                  /\ calls[i].cost >= 1
                  /\ calls[i].grad >= 1
                  /\ calls[i].step >= 1
            /\ Stopped(i) =>
                  /\ calls[i].stop >= 1
                  /\ iter[i] >= 1
            /\ (Stopped(i) /\ \E n \in solver.maxiter : n <= 0) =>
                  /\ iter[i] = 1
                  /\ stop_reason[i] = "MaxIterationsReached"
            /\ (Stopped(i) /\ 0 \in solver.maxtime) =>
                  /\ iter[i] = 1
                  /\ stop_reason[i] \in {"MaxIterationsReached", "MaxTimeExceeded"})
    /\ [][\A i \in callers :
            (CheckStep(i) /\ calls[i].stop = 0) =>
                /\ iter[i] = 1
                /\ calls[i].cost = 1
                /\ calls[i].grad = 1
                /\ calls[i].step = 1]_vars

\* a solve configured with a negative maximum number of iterations returns
\* after one iteration
C17_Witness ==
    /\ solver.maxiter = {-1}
    /\ solver.maxtime = {}
    /\ pc[1] = "returned"
    /\ iter[1] = 1
    /\ calls[1].grad = 1
    /\ calls[1].stop = 1
    /\ stop_reason[1] = "MaxIterationsReached"

----------------------------------------------------------------------------
(* C18 *)

\* the last iteration record and the terminal record of the log
LastRecord == optlog.records[Len(optlog.records)]
Final == optlog.final[Len(optlog.final)]

\* C18: with log verbosity >= 1 a returned solve has written one terminal
\* record: its point is the point after the last step (the point returned),
\* its cost is the objective at that point, its gradient norm is the norm of
\* the gradient at the point before the last step, its iteration, step size
\* and stop reason are those of the last stop check; with log verbosity >= 2
\* the last iteration record has the same iteration and the same gradient
\* norm, and holds the point before the last step.
C18_TerminalRecord ==
    /\ [](\A i \in callers :
            (pc[i] = "returned" /\ solver.logverbosity >= 1) =>
                /\ Len(optlog.final) = 1
                /\ Final.x = Move(at[i].grad, desc_dir[i], stepsize[i])
                /\ Final.x = ret[i][1]
                /\ Final.fx = Objective(Final.x)
                /\ at[i].cost = Final.x
                /\ Final.gradnorm = Norm(at[i].grad, grad[i])
                /\ Final.iter = iter[i]
                /\ Final.iter = calls[i].stop
                /\ Final.stepsize = stepsize[i]
                /\ Final.stop_reason = stop_reason[i]
                /\ Final.stop_reason # "None"
                /\ solver.logverbosity >= 2 =>
                      /\ LastRecord.iteration = Final.iter
                      /\ LastRecord.gradnorm = Final.gradnorm
                      /\ LastRecord.x = at[i].grad
                      /\ Final.x = Move(LastRecord.x, desc_dir[i], Final.stepsize))
    /\ [][\A i \in callers :
            /\ (CheckStep(i) /\ pc'[i] = "finish") =>
                  /\ stop_reason'[i] = CheckStoppingCriterion(i)
                  /\ stepsize'[i] = stepsize[i]
            /\ (pc[i] = "finish" /\ pc'[i] # "finish") =>
                  /\ pc'[i] \in {"returned", "aborted"}
                  /\ stop_reason'[i] = stop_reason[i]
                  /\ stepsize'[i] = stepsize[i]
                  /\ gradnorm'[i] = gradnorm[i]
                  /\ iter'[i] = iter[i]]_vars

\* a solve on the noisy problem whose last step moved the point: the terminal
\* record and the last iteration record differ in point and cost and agree in
\* iteration and gradient norm
C18_Witness ==
    /\ pc[1] = "returned"
    /\ solver.logverbosity = 2
    /\ problem.kind = "noisy"
    /\ Len(optlog.final) = 1
    /\ Len(optlog.records) = 2
    /\ Final.iter = 2
    /\ Final.x # LastRecord.x
    /\ Final.fx # LastRecord.fx
    /\ Final.gradnorm = LastRecord.gradnorm

----------------------------------------------------------------------------
(* C19 *)

\* the number of calls of each collaborator an invocation has made when it
\* is at position p with n iterations counted and log verbosity lv
CallsAt(p, n, lv) ==
    IF p = "cost" THEN [cost |-> n, grad |-> n, norm |-> n, step |-> n, stop |-> n]
    ELSE IF p = "grad" THEN [cost |-> n + 1, grad |-> n, norm |-> n, step |-> n, stop |-> n]
    ELSE IF p = "norm" THEN [cost |-> n + 1, grad |-> n + 1, norm |-> n, step |-> n, stop |-> n]
    ELSE IF p \in {"record", "step"}
         THEN [cost |-> n, grad |-> n, norm |-> n, step |-> n - 1, stop |-> n - 1]
    ELSE IF p = "check" THEN [cost |-> n, grad |-> n, norm |-> n, step |-> n, stop |-> n - 1]
    ELSE IF p = "finish" THEN [cost |-> n, grad |-> n, norm |-> n, step |-> n, stop |-> n]
    ELSE [cost |-> IF lv >= 1 THEN n + 1 ELSE n, grad |-> n, norm |-> n, step |-> n,
          stop |-> n]

\* C19: every iteration makes its calls in the order cost, gradient, norm
\* (with the increment of the counter), append, step size, stop check, one
\* call of each, so a solve that returns after n iterations has called the
\* gradient n times and the cost n times inside the loop; with log verbosity
\* >= 1 it calls the cost once more, at the final point and after the stop
\* reason is decided (n + 1 calls in all), and with log verbosity 0 it does
\* not.
C19_CallCounts ==
    /\ [](\A i \in callers :
            /\ pc[i] \notin {"init", "aborted"} =>
                  calls[i] = CallsAt(pc[i], iter[i], solver.logverbosity)
            /\ (pc[i] = "step" /\ solver.logverbosity >= 2) =>
                  Len(optlog.records) = iter[i]
            /\ (pc[i] = "record" /\ solver.logverbosity >= 2) =>
                  Len(optlog.records) = iter[i] - 1
            /\ (pc[i] = "aborted" /\ failed[i] = "norm") =>
                  calls[i].norm = iter[i] + 1)
    /\ [][\A i \in callers :
            /\ (pc[i] \in {"cost", "grad", "norm", "record", "step"}
                    /\ pc'[i] \notin {pc[i], "aborted"}) =>
                  pc'[i] = FollowsInIteration(pc[i])
            /\ (pc[i] = "finish" /\ calls'[i].cost # calls[i].cost) =>
                  /\ solver.logverbosity >= 1
                  /\ stop_reason[i] # "None"
                  /\ at'[i].cost = x[i]
                  /\ calls'[i].cost = iter[i] + 1]_vars

\* a solve of two iterations with log verbosity 1 has returned: two gradient
\* calls, three cost calls
C19_Witness ==
    /\ pc[1] = "returned"
    /\ solver.logverbosity = 1
    /\ iter[1] = 2
    /\ calls[1].grad = 2
    /\ calls[1].cost = 3
    /\ calls[1].step = 2
    /\ calls[1].stop = 2

====
